---- MODULE Spec2Model ----
\* The DLP filter pipeline of configs/open-webui/dlp-pipeline.py as a state machine.
\*
\* Text is a sequence of characters, each character a one-element string atom
\* (characters TLA+ cannot write in a string are named atoms: "u2013" is U+2013).
\* Patterns are syntax trees of the regular expressions in the source, matched
\* by a backtracking-order matcher, so that scanning and redaction are computed
\* from the characters of the text as re.search and re.sub compute them.
EXTENDS FiniteSets, Integers, Sequences, TLC

VARIABLES
  valves,   \* self.valves: the configuration the admin surface edits
  op,       \* the call that completed last ("" before the first)
  arg,      \* its argument
  res       \* what it returned or raised

vars == <<valves, op, arg, res>>

\* ---------------------------------------------------------------------------
\* Characters
\* ---------------------------------------------------------------------------

LowerTab ==
  ("A" :> "a") @@ ("B" :> "b") @@ ("C" :> "c") @@ ("D" :> "d") @@ ("E" :> "e") @@
  ("F" :> "f") @@ ("G" :> "g") @@ ("H" :> "h") @@ ("I" :> "i") @@ ("J" :> "j") @@
  ("K" :> "k") @@ ("L" :> "l") @@ ("M" :> "m") @@ ("N" :> "n") @@ ("O" :> "o") @@
  ("P" :> "p") @@ ("Q" :> "q") @@ ("R" :> "r") @@ ("S" :> "s") @@ ("T" :> "t") @@
  ("U" :> "u") @@ ("V" :> "v") @@ ("W" :> "w") @@ ("X" :> "x") @@ ("Y" :> "y") @@
  ("Z" :> "z")

UpperTab ==
  ("a" :> "A") @@ ("b" :> "B") @@ ("c" :> "C") @@ ("d" :> "D") @@ ("e" :> "E") @@
  ("f" :> "F") @@ ("g" :> "G") @@ ("h" :> "H") @@ ("i" :> "I") @@ ("j" :> "J") @@
  ("k" :> "K") @@ ("l" :> "L") @@ ("m" :> "M") @@ ("n" :> "N") @@ ("o" :> "O") @@
  ("p" :> "P") @@ ("q" :> "Q") @@ ("r" :> "R") @@ ("s" :> "S") @@ ("t" :> "T") @@
  ("u" :> "U") @@ ("v" :> "V") @@ ("w" :> "W") @@ ("x" :> "X") @@ ("y" :> "Y") @@
  ("z" :> "Z")

\* str.lower() and str.upper() on one character.
Low(c) == IF c \in DOMAIN LowerTab THEN LowerTab[c] ELSE c
Up(c) == IF c \in DOMAIN UpperTab THEN UpperTab[c] ELSE c

RECURSIVE lower(_)
lower(s) == IF Len(s) = 0 THEN <<>> ELSE <<Low(Head(s))>> \o lower(Tail(s))

RECURSIVE upper(_)
upper(s) == IF Len(s) = 0 THEN <<>> ELSE <<Up(Head(s))>> \o upper(Tail(s))

Digits == {"0", "1", "2", "3", "4", "5", "6", "7", "8", "9"}
Letters == DOMAIN UpperTab
WordChars == Letters \cup Digits \cup {"_"}
\* \s, and the characters str.strip() removes.
Space == {" ", "\t", "\n", "\r", "u000b", "u000c"}

\* Python's None where a string is expected: an atom no text contains.
None == <<"<None>">>

\* ---------------------------------------------------------------------------
\* Regular expressions (re.IGNORECASE throughout: the trees hold lower case
\* and the text is lowered character by character when it is compared)
\* ---------------------------------------------------------------------------

Set(cs) == [op |-> "set", neg |-> FALSE, cs |-> cs]
NotSet(cs) == [op |-> "set", neg |-> TRUE, cs |-> cs]
WB == [op |-> "wb"]
Cat(rs) == [op |-> "cat", rs |-> rs]
Alt(rs) == [op |-> "alt", rs |-> rs]
Rep(r, lo, hi) == [op |-> "rep", r |-> r, lo |-> lo, hi |-> hi, bounded |-> TRUE, greedy |-> TRUE]
RepFrom(r, lo) == [op |-> "rep", r |-> r, lo |-> lo, hi |-> 0, bounded |-> FALSE, greedy |-> TRUE]
LazyFrom(r, lo) == [op |-> "rep", r |-> r, lo |-> lo, hi |-> 0, bounded |-> FALSE, greedy |-> FALSE]

RECURSIVE LitSeq(_)
LitSeq(w) == IF Len(w) = 0 THEN <<>> ELSE <<Set({Head(w)})>> \o LitSeq(Tail(w))

Lit(w) == Cat(LitSeq(w))

IsWordAt(s, i) == i >= 1 /\ i <= Len(s) /\ Low(s[i]) \in WordChars

\* Every (start, end) such that the pattern matches s[start .. end-1], from the
\* pairs P reached so far: all start positions are advanced together.
RECURSIVE Step(_, _, _)
RECURSIVE CatStep(_, _, _, _)
RECURSIVE RepStep(_, _, _, _, _, _)

Step(r, s, P) ==
  IF P = {} THEN {}
  ELSE CASE r.op = "set" ->
              {<<p[1], p[2] + 1>> :
                 p \in {q \in P : q[2] <= Len(s) /\ ((Low(s[q[2]]) \in r.cs) # r.neg)}}
         [] r.op = "wb" -> {p \in P : IsWordAt(s, p[2] - 1) # IsWordAt(s, p[2])}
         [] r.op = "cat" -> CatStep(r.rs, 1, s, P)
         [] r.op = "alt" -> UNION {Step(r.rs[k], s, P) : k \in 1..Len(r.rs)}
         [] r.op = "rep" -> RepStep(r.r, r.lo, r.hi, r.bounded, s, P)

CatStep(rs, k, s, P) ==
  IF k > Len(rs) THEN P ELSE CatStep(rs, k + 1, s, Step(rs[k], s, P))

RepStep(r, lo, hi, bounded, s, P) ==
  IF (bounded /\ hi = 0) \/ P = {} THEN P
  ELSE LET Q == Step(r, s, P)
           nhi == IF bounded THEN hi - 1 ELSE hi
       IN IF lo > 0 THEN RepStep(r, lo - 1, nhi, bounded, s, Q)
          ELSE P \cup RepStep(r, 0, nhi, bounded, s, Q \ P)

Matches(r, s) == Step(r, s, {<<i, i>> : i \in 1..(Len(s) + 1)})

\* Whether the pattern matches anywhere in s.
Search(r, s) == Matches(r, s) # {}

\* The ends of the matches that start at i, in the order a backtracking matcher
\* tries them (greedy: longest repetition first; alternatives left to right).
\* The first is the match re.sub replaces.
RECURSIVE Ends(_, _, _)
RECURSIVE CatEnds(_, _, _, _)
RECURSIVE AltEnds(_, _, _, _)
RECURSIVE RepEnds(_, _, _, _, _, _, _)

Ends(r, s, i) ==
  CASE r.op = "set" ->
         IF i <= Len(s) /\ ((Low(s[i]) \in r.cs) # r.neg) THEN <<i + 1>> ELSE <<>>
    [] r.op = "wb" -> IF IsWordAt(s, i - 1) # IsWordAt(s, i) THEN <<i>> ELSE <<>>
    [] r.op = "cat" -> CatEnds(r.rs, 1, s, i)
    [] r.op = "alt" -> AltEnds(r.rs, 1, s, i)
    [] r.op = "rep" -> RepEnds(r.r, r.lo, r.hi, r.bounded, r.greedy, s, i)

CatEnds(rs, k, s, i) ==
  IF k > Len(rs) THEN <<i>>
  ELSE LET es == Ends(rs[k], s, i)
           F[n \in 0..Len(es)] ==
             IF n = 0 THEN <<>> ELSE F[n - 1] \o CatEnds(rs, k + 1, s, es[n])
       IN F[Len(es)]

AltEnds(rs, k, s, i) ==
  IF k > Len(rs) THEN <<>> ELSE Ends(rs[k], s, i) \o AltEnds(rs, k + 1, s, i)

RepEnds(r, lo, hi, bounded, greedy, s, i) ==
  LET stop == IF lo = 0 THEN <<i>> ELSE <<>>
      es == IF bounded /\ hi = 0 THEN <<>> ELSE Ends(r, s, i)
      nlo == IF lo = 0 THEN 0 ELSE lo - 1
      nhi == IF bounded THEN hi - 1 ELSE hi
      F[n \in 0..Len(es)] ==
        IF n = 0 THEN <<>>
        ELSE F[n - 1] \o (IF es[n] > i
                          THEN RepEnds(r, nlo, nhi, bounded, greedy, s, es[n])
                          ELSE <<>>)
  IN IF greedy THEN F[Len(es)] \o stop ELSE stop \o F[Len(es)]

Min(S) == CHOOSE m \in S : \A n \in S : m <= n

\* re.sub from position i on: the leftmost match at or after i is replaced,
\* the search goes on behind it; an empty match consumes nothing and the
\* character after it is copied.
RECURSIVE SubFrom(_, _, _, _, _)
SubFrom(r, repl, s, starts, i) ==
  LET later == {st \in starts : st >= i}
  IN IF later = {} THEN SubSeq(s, i, Len(s))
     ELSE LET st == Min(later)
              e == Ends(r, s, st)[1]
          IN SubSeq(s, i, st - 1) \o repl \o
             (IF e > st THEN SubFrom(r, repl, s, starts, e)
              ELSE IF st <= Len(s) THEN <<s[st]>> \o SubFrom(r, repl, s, starts, st + 1)
              ELSE <<>>)

\* re.sub(pattern, repl, s): every non-overlapping match, left to right.
Sub(r, repl, s) ==
  IF Len(s) = 0 THEN (IF Search(r, s) THEN repl ELSE s)
  ELSE SubFrom(r, repl, s, {p[1] : p \in Matches(r, s)}, 1)

\* ---------------------------------------------------------------------------
\* Values and exceptions
\* ---------------------------------------------------------------------------

Ok(v) == [exc |-> "", val |-> v]
Raise(e) == [exc |-> e]
IsOk(r) == r.exc = ""

\* A pattern string, by what compiling it gives; a string that does not
\* compile; a JSON number where a pattern string is expected.
RegexStr(ast) == [type |-> "str", valid |-> TRUE, ast |-> ast]

\* ---------------------------------------------------------------------------
\* The pattern registry
\* ---------------------------------------------------------------------------

\* ssn: \b\d{3}[-\u2013\u2014\s]?\d{2}[-\u2013\u2014\s]?\d{4}\b
re_ssn ==
  Cat(<<WB, Rep(Set(Digits), 3, 3), Rep(Set(Space \cup {"-", "u2013", "u2014"}), 0, 1), Rep(Set(Digits), 2, 2), Rep(Set(Space \cup {"-", "u2013", "u2014"}), 0, 1), Rep(Set(Digits), 4, 4), WB>>)
\* ssn_labeled: (?:social\s*security(?:\s*(?:number|no\.?|num\.?|#))?|ssn|ss\s*#|ss\s*no\.?)[\s:.=#]*\d{3}[-\u2013\u2014\s]?\d{2}[-\u2013\u2014\s]?\d{4}
re_ssn_labeled ==
  Cat(<<Lit(<<"s">>), Alt(<<Cat(<<Lit(<<"o", "c", "i", "a", "l">>), RepFrom(Set(Space), 0), Lit(<<"s", "e", "c", "u", "r", "i", "t", "y">>), Rep(Cat(<<RepFrom(Set(Space), 0), Alt(<<Lit(<<"n", "u", "m", "b", "e", "r">>), Cat(<<Lit(<<"n", "o">>), Rep(Lit(<<".">>), 0, 1)>>), Cat(<<Lit(<<"n", "u", "m">>), Rep(Lit(<<".">>), 0, 1)>>), Lit(<<"#">>)>>)>>), 0, 1)>>), Lit(<<"s", "n">>), Cat(<<Lit(<<"s">>), RepFrom(Set(Space), 0), Lit(<<"#">>)>>), Cat(<<Lit(<<"s">>), RepFrom(Set(Space), 0), Lit(<<"n", "o">>), Rep(Lit(<<".">>), 0, 1)>>)>>), RepFrom(Set(Space \cup {":", ".", "=", "#"}), 0), Rep(Set(Digits), 3, 3), Rep(Set(Space \cup {"-", "u2013", "u2014"}), 0, 1), Rep(Set(Digits), 2, 2), Rep(Set(Space \cup {"-", "u2013", "u2014"}), 0, 1), Rep(Set(Digits), 4, 4)>>)
\* credit_card: \b(?:4\d{3}|5[1-5]\d{2}|3[47]\d{2}|6(?:011|5\d{2}))[-\s]?\d{4}[-\s]?\d{4}[-\s]?\d{4}\b
re_credit_card ==
  Cat(<<WB, Alt(<<Cat(<<Lit(<<"4">>), Rep(Set(Digits), 3, 3)>>), Cat(<<Lit(<<"5">>), Set({"1", "2", "3", "4", "5"}), Rep(Set(Digits), 2, 2)>>), Cat(<<Lit(<<"3">>), Set({"4", "7"}), Rep(Set(Digits), 2, 2)>>), Cat(<<Lit(<<"6">>), Alt(<<Lit(<<"0", "1", "1">>), Cat(<<Lit(<<"5">>), Rep(Set(Digits), 2, 2)>>)>>)>>)>>), Rep(Set(Space \cup {"-"}), 0, 1), Rep(Set(Digits), 4, 4), Rep(Set(Space \cup {"-"}), 0, 1), Rep(Set(Digits), 4, 4), Rep(Set(Space \cup {"-"}), 0, 1), Rep(Set(Digits), 4, 4), WB>>)
\* credit_card_generic: \b(?:\d{4}[-\s]){3}\d{4}\b
re_credit_card_generic ==
  Cat(<<WB, Rep(Cat(<<Rep(Set(Digits), 4, 4), Set(Space \cup {"-"})>>), 3, 3), Rep(Set(Digits), 4, 4), WB>>)
\* phi_mrn: \b(?:MRN|Medical Record|Patient ID)[\s:#]*\d{5,}\b
re_phi_mrn ==
  Cat(<<WB, Alt(<<Lit(<<"m", "r", "n">>), Lit(<<"m", "e", "d", "i", "c", "a", "l", " ", "r", "e", "c", "o", "r", "d">>), Lit(<<"p", "a", "t", "i", "e", "n", "t", " ", "i", "d">>)>>), RepFrom(Set(Space \cup {":", "#"}), 0), RepFrom(Set(Digits), 5), WB>>)
\* phi_dob: \b(?:DOB|D\.O\.B\.?|date\s+of\s+birth|birth\s*date|birth\s*day|b[\-\s]?day|born(?:\s+on)?|fecha\s+de\s+nacimiento)[\s:]*\d{1,2}[/\-\.]\d{1,2}[/\-\.]\d{2,4}\b
re_phi_dob ==
  Cat(<<WB, Alt(<<Lit(<<"d", "o", "b">>), Cat(<<Lit(<<"d", ".", "o", ".", "b">>), Rep(Lit(<<".">>), 0, 1)>>), Cat(<<Lit(<<"d", "a", "t", "e">>), RepFrom(Set(Space), 1), Lit(<<"o", "f">>), RepFrom(Set(Space), 1), Lit(<<"b", "i", "r", "t", "h">>)>>), Cat(<<Lit(<<"b", "i", "r", "t", "h">>), RepFrom(Set(Space), 0), Lit(<<"d", "a", "t", "e">>)>>), Cat(<<Lit(<<"b", "i", "r", "t", "h">>), RepFrom(Set(Space), 0), Lit(<<"d", "a", "y">>)>>), Cat(<<Lit(<<"b">>), Rep(Set(Space \cup {"-"}), 0, 1), Lit(<<"d", "a", "y">>)>>), Cat(<<Lit(<<"b", "o", "r", "n">>), Rep(Cat(<<RepFrom(Set(Space), 1), Lit(<<"o", "n">>)>>), 0, 1)>>), Cat(<<Lit(<<"f", "e", "c", "h", "a">>), RepFrom(Set(Space), 1), Lit(<<"d", "e">>), RepFrom(Set(Space), 1), Lit(<<"n", "a", "c", "i", "m", "i", "e", "n", "t", "o">>)>>)>>), RepFrom(Set(Space \cup {":"}), 0), Rep(Set(Digits), 1, 2), Set({"/", "-", "."}), Rep(Set(Digits), 1, 2), Set({"/", "-", "."}), Rep(Set(Digits), 2, 4), WB>>)
\* phi_dob_iso: \b(?:DOB|D\.O\.B\.?|date\s+of\s+birth|birth\s*date|birth\s*day|b[\-\s]?day|born(?:\s+on)?)[\s:]*\d{4}[/\-\.]\d{1,2}[/\-\.]\d{1,2}\b
re_phi_dob_iso ==
  Cat(<<WB, Alt(<<Lit(<<"d", "o", "b">>), Cat(<<Lit(<<"d", ".", "o", ".", "b">>), Rep(Lit(<<".">>), 0, 1)>>), Cat(<<Lit(<<"d", "a", "t", "e">>), RepFrom(Set(Space), 1), Lit(<<"o", "f">>), RepFrom(Set(Space), 1), Lit(<<"b", "i", "r", "t", "h">>)>>), Cat(<<Lit(<<"b", "i", "r", "t", "h">>), RepFrom(Set(Space), 0), Lit(<<"d", "a", "t", "e">>)>>), Cat(<<Lit(<<"b", "i", "r", "t", "h">>), RepFrom(Set(Space), 0), Lit(<<"d", "a", "y">>)>>), Cat(<<Lit(<<"b">>), Rep(Set(Space \cup {"-"}), 0, 1), Lit(<<"d", "a", "y">>)>>), Cat(<<Lit(<<"b", "o", "r", "n">>), Rep(Cat(<<RepFrom(Set(Space), 1), Lit(<<"o", "n">>)>>), 0, 1)>>)>>), RepFrom(Set(Space \cup {":"}), 0), Rep(Set(Digits), 4, 4), Set({"/", "-", "."}), Rep(Set(Digits), 1, 2), Set({"/", "-", "."}), Rep(Set(Digits), 1, 2), WB>>)
\* phi_dob_text_month: \b(?:DOB|D\.O\.B\.?|date\s+of\s+birth|birth\s*date|birth\s*day|b[\-\s]?day|born(?:\s+on)?)[\s:]*(?:Jan(?:uary)?|Feb(?:ruary)?|Mar(?:ch)?|Apr(?:il)?|May|Jun(?:e)?|Jul(?:y)?|Aug(?:ust)?|Sep(?:t(?:ember)?)?|Oct(?:ober)?|Nov(?:ember)?|Dec(?:ember)?)\.?\s+\d{1,2},?\s+\d{2,4}
re_phi_dob_text_month ==
  Cat(<<WB, Alt(<<Lit(<<"d", "o", "b">>), Cat(<<Lit(<<"d", ".", "o", ".", "b">>), Rep(Lit(<<".">>), 0, 1)>>), Cat(<<Lit(<<"d", "a", "t", "e">>), RepFrom(Set(Space), 1), Lit(<<"o", "f">>), RepFrom(Set(Space), 1), Lit(<<"b", "i", "r", "t", "h">>)>>), Cat(<<Lit(<<"b", "i", "r", "t", "h">>), RepFrom(Set(Space), 0), Lit(<<"d", "a", "t", "e">>)>>), Cat(<<Lit(<<"b", "i", "r", "t", "h">>), RepFrom(Set(Space), 0), Lit(<<"d", "a", "y">>)>>), Cat(<<Lit(<<"b">>), Rep(Set(Space \cup {"-"}), 0, 1), Lit(<<"d", "a", "y">>)>>), Cat(<<Lit(<<"b", "o", "r", "n">>), Rep(Cat(<<RepFrom(Set(Space), 1), Lit(<<"o", "n">>)>>), 0, 1)>>)>>), RepFrom(Set(Space \cup {":"}), 0), Alt(<<Cat(<<Lit(<<"j", "a", "n">>), Rep(Lit(<<"u", "a", "r", "y">>), 0, 1)>>), Cat(<<Lit(<<"f", "e", "b">>), Rep(Lit(<<"r", "u", "a", "r", "y">>), 0, 1)>>), Cat(<<Lit(<<"m", "a", "r">>), Rep(Lit(<<"c", "h">>), 0, 1)>>), Cat(<<Lit(<<"a", "p", "r">>), Rep(Lit(<<"i", "l">>), 0, 1)>>), Lit(<<"m", "a", "y">>), Cat(<<Lit(<<"j", "u", "n">>), Rep(Lit(<<"e">>), 0, 1)>>), Cat(<<Lit(<<"j", "u", "l">>), Rep(Lit(<<"y">>), 0, 1)>>), Cat(<<Lit(<<"a", "u", "g">>), Rep(Lit(<<"u", "s", "t">>), 0, 1)>>), Cat(<<Lit(<<"s", "e", "p">>), Rep(Cat(<<Lit(<<"t">>), Rep(Lit(<<"e", "m", "b", "e", "r">>), 0, 1)>>), 0, 1)>>), Cat(<<Lit(<<"o", "c", "t">>), Rep(Lit(<<"o", "b", "e", "r">>), 0, 1)>>), Cat(<<Lit(<<"n", "o", "v">>), Rep(Lit(<<"e", "m", "b", "e", "r">>), 0, 1)>>), Cat(<<Lit(<<"d", "e", "c">>), Rep(Lit(<<"e", "m", "b", "e", "r">>), 0, 1)>>)>>), Rep(Lit(<<".">>), 0, 1), RepFrom(Set(Space), 1), Rep(Set(Digits), 1, 2), Rep(Lit(<<",">>), 0, 1), RepFrom(Set(Space), 1), Rep(Set(Digits), 2, 4)>>)
\* phi_dob_standalone: \b(?:0?[1-9]|1[0-2])[/\-](?:0?[1-9]|[12]\d|3[01])[/\-](?:19|20)\d{2}\b
re_phi_dob_standalone ==
  Cat(<<WB, Alt(<<Cat(<<Rep(Lit(<<"0">>), 0, 1), Set({"1", "2", "3", "4", "5", "6", "7", "8", "9"})>>), Cat(<<Lit(<<"1">>), Set({"0", "1", "2"})>>)>>), Set({"/", "-"}), Alt(<<Cat(<<Rep(Lit(<<"0">>), 0, 1), Set({"1", "2", "3", "4", "5", "6", "7", "8", "9"})>>), Cat(<<Set({"1", "2"}), Set(Digits)>>), Cat(<<Lit(<<"3">>), Set({"0", "1"})>>)>>), Set({"/", "-"}), Alt(<<Lit(<<"1", "9">>), Lit(<<"2", "0">>)>>), Rep(Set(Digits), 2, 2), WB>>)
\* phi_dob_standalone_iso: \b(?:19|20)\d{2}[/\-](?:0?[1-9]|1[0-2])[/\-](?:0?[1-9]|[12]\d|3[01])\b
re_phi_dob_standalone_iso ==
  Cat(<<WB, Alt(<<Lit(<<"1", "9">>), Lit(<<"2", "0">>)>>), Rep(Set(Digits), 2, 2), Set({"/", "-"}), Alt(<<Cat(<<Rep(Lit(<<"0">>), 0, 1), Set({"1", "2", "3", "4", "5", "6", "7", "8", "9"})>>), Cat(<<Lit(<<"1">>), Set({"0", "1", "2"})>>)>>), Set({"/", "-"}), Alt(<<Cat(<<Rep(Lit(<<"0">>), 0, 1), Set({"1", "2", "3", "4", "5", "6", "7", "8", "9"})>>), Cat(<<Set({"1", "2"}), Set(Digits)>>), Cat(<<Lit(<<"3">>), Set({"0", "1"})>>)>>), WB>>)
\* phi_diagnosis: \b(?:ICD[-\s]?(?:9|10)[-\s]?(?:CM|PCS)?[\s:#]*[A-Z]\d{2}(?:\.\d{1,4})?)\b
re_phi_diagnosis ==
  Cat(<<WB, Lit(<<"i", "c", "d">>), Rep(Set(Space \cup {"-"}), 0, 1), Alt(<<Lit(<<"9">>), Lit(<<"1", "0">>)>>), Rep(Set(Space \cup {"-"}), 0, 1), Rep(Alt(<<Lit(<<"c", "m">>), Lit(<<"p", "c", "s">>)>>), 0, 1), RepFrom(Set(Space \cup {":", "#"}), 0), Set(Letters), Rep(Set(Digits), 2, 2), Rep(Cat(<<Lit(<<".">>), Rep(Set(Digits), 1, 4)>>), 0, 1), WB>>)
\* api_key: \b(?:sk-[a-zA-Z0-9]{20,}|api[_\-]?key[\s=:]+["\']?[a-zA-Z0-9_\-]{16,})
re_api_key ==
  Cat(<<WB, Alt(<<Cat(<<Lit(<<"s", "k", "-">>), RepFrom(Set(Letters \cup Digits), 20)>>), Cat(<<Lit(<<"a", "p", "i">>), Rep(Set({"_", "-"}), 0, 1), Lit(<<"k", "e", "y">>), RepFrom(Set(Space \cup {"=", ":"}), 1), Rep(Set({"\"", "'"}), 0, 1), RepFrom(Set(Letters \cup Digits \cup {"_", "-"}), 16)>>)>>)>>)
\* password_inline: (?:password|passwd|pwd)[\s]*[=:]+[\s]*["\']?[^\s"\']{8,}
re_password_inline ==
  Cat(<<Lit(<<"p">>), Alt(<<Lit(<<"a", "s", "s", "w", "o", "r", "d">>), Lit(<<"a", "s", "s", "w", "d">>), Lit(<<"w", "d">>)>>), RepFrom(Set(Space), 0), RepFrom(Set({"=", ":"}), 1), RepFrom(Set(Space), 0), Rep(Set({"\"", "'"}), 0, 1), RepFrom(NotSet(Space \cup {"\"", "'"}), 8)>>)
\* connection_string: (?:Server|Data Source|Host|Provider)=[^;\n]+;(?:.*?(?:Password|Pwd|User ID)=[^;\n]+)
re_connection_string ==
  Cat(<<Alt(<<Lit(<<"s", "e", "r", "v", "e", "r">>), Lit(<<"d", "a", "t", "a", " ", "s", "o", "u", "r", "c", "e">>), Lit(<<"h", "o", "s", "t">>), Lit(<<"p", "r", "o", "v", "i", "d", "e", "r">>)>>), Lit(<<"=">>), RepFrom(NotSet({";", "\n"}), 1), Lit(<<";">>), LazyFrom(NotSet({"\n"}), 0), Alt(<<Lit(<<"p", "a", "s", "s", "w", "o", "r", "d">>), Lit(<<"p", "w", "d">>), Lit(<<"u", "s", "e", "r", " ", "i", "d">>)>>), Lit(<<"=">>), RepFrom(NotSet({";", "\n"}), 1)>>)
\* aws_key: \b(?:AKIA|ASIA)[A-Z0-9]{16}\b
re_aws_key ==
  Cat(<<WB, Lit(<<"a">>), Alt(<<Lit(<<"k", "i", "a">>), Lit(<<"s", "i", "a">>)>>), Rep(Set(Letters \cup Digits), 16, 16), WB>>)
\* private_key: -----BEGIN (?:RSA |EC |DSA )?PRIVATE KEY-----
re_private_key ==
  Cat(<<Lit(<<"-", "-", "-", "-", "-", "b", "e", "g", "i", "n", " ">>), Rep(Alt(<<Lit(<<"r", "s", "a", " ">>), Lit(<<"e", "c", " ">>), Lit(<<"d", "s", "a", " ">>)>>), 0, 1), Lit(<<"p", "r", "i", "v", "a", "t", "e", " ", "k", "e", "y", "-", "-", "-", "-", "-">>)>>)
\* bank_routing: \b(?:routing|ABA)[\s#:]*\d{9}\b
re_bank_routing ==
  Cat(<<WB, Alt(<<Lit(<<"r", "o", "u", "t", "i", "n", "g">>), Lit(<<"a", "b", "a">>)>>), RepFrom(Set(Space \cup {"#", ":"}), 0), Rep(Set(Digits), 9, 9), WB>>)
\* bank_account: \b(?:account|acct)[\s#:]*\d{8,17}\b
re_bank_account ==
  Cat(<<WB, Lit(<<"a", "c", "c">>), Alt(<<Lit(<<"o", "u", "n", "t">>), Lit(<<"t">>)>>), RepFrom(Set(Space \cup {"#", ":"}), 0), Rep(Set(Digits), 8, 17), WB>>)

\* self.patterns, in definition order (a dict keeps insertion order).
patterns == <<
  [name |-> <<"s", "s", "n">>, regex |-> RegexStr(re_ssn),
   description |-> <<"S", "o", "c", "i", "a", "l", " ", "S", "e", "c", "u", "r", "i", "t", "y", " ", "N", "u", "m", "b", "e", "r">>,
   valve |-> "block_ssn", severity |-> "critical"],
  [name |-> <<"s", "s", "n", "_", "l", "a", "b", "e", "l", "e", "d">>, regex |-> RegexStr(re_ssn_labeled),
   description |-> <<"S", "o", "c", "i", "a", "l", " ", "S", "e", "c", "u", "r", "i", "t", "y", " ", "N", "u", "m", "b", "e", "r", " ", "(", "l", "a", "b", "e", "l", "e", "d", ")">>,
   valve |-> "block_ssn", severity |-> "critical"],
  [name |-> <<"c", "r", "e", "d", "i", "t", "_", "c", "a", "r", "d">>, regex |-> RegexStr(re_credit_card),
   description |-> <<"C", "r", "e", "d", "i", "t", " ", "C", "a", "r", "d", " ", "N", "u", "m", "b", "e", "r">>,
   valve |-> "block_credit_cards", severity |-> "critical"],
  [name |-> <<"c", "r", "e", "d", "i", "t", "_", "c", "a", "r", "d", "_", "g", "e", "n", "e", "r", "i", "c">>, regex |-> RegexStr(re_credit_card_generic),
   description |-> <<"P", "o", "t", "e", "n", "t", "i", "a", "l", " ", "C", "r", "e", "d", "i", "t", " ", "C", "a", "r", "d", " ", "N", "u", "m", "b", "e", "r">>,
   valve |-> "block_credit_cards", severity |-> "high"],
  [name |-> <<"p", "h", "i", "_", "m", "r", "n">>, regex |-> RegexStr(re_phi_mrn),
   description |-> <<"M", "e", "d", "i", "c", "a", "l", " ", "R", "e", "c", "o", "r", "d", " ", "N", "u", "m", "b", "e", "r">>,
   valve |-> "block_phi", severity |-> "critical"],
  [name |-> <<"p", "h", "i", "_", "d", "o", "b">>, regex |-> RegexStr(re_phi_dob),
   description |-> <<"D", "a", "t", "e", " ", "o", "f", " ", "B", "i", "r", "t", "h", " ", "(", "l", "a", "b", "e", "l", "e", "d", ")">>,
   valve |-> "block_phi", severity |-> "high"],
  [name |-> <<"p", "h", "i", "_", "d", "o", "b", "_", "i", "s", "o">>, regex |-> RegexStr(re_phi_dob_iso),
   description |-> <<"D", "a", "t", "e", " ", "o", "f", " ", "B", "i", "r", "t", "h", " ", "-", " ", "I", "S", "O", " ", "f", "o", "r", "m", "a", "t">>,
   valve |-> "block_phi", severity |-> "high"],
  [name |-> <<"p", "h", "i", "_", "d", "o", "b", "_", "t", "e", "x", "t", "_", "m", "o", "n", "t", "h">>, regex |-> RegexStr(re_phi_dob_text_month),
   description |-> <<"D", "a", "t", "e", " ", "o", "f", " ", "B", "i", "r", "t", "h", " ", "-", " ", "t", "e", "x", "t", " ", "m", "o", "n", "t", "h">>,
   valve |-> "block_phi", severity |-> "high"],
  [name |-> <<"p", "h", "i", "_", "d", "o", "b", "_", "s", "t", "a", "n", "d", "a", "l", "o", "n", "e">>, regex |-> RegexStr(re_phi_dob_standalone),
   description |-> <<"D", "a", "t", "e", " ", "P", "a", "t", "t", "e", "r", "n", " ", "(", "M", "M", "/", "D", "D", "/", "Y", "Y", "Y", "Y", ")">>,
   valve |-> "block_standalone_dates", severity |-> "medium"],
  [name |-> <<"p", "h", "i", "_", "d", "o", "b", "_", "s", "t", "a", "n", "d", "a", "l", "o", "n", "e", "_", "i", "s", "o">>, regex |-> RegexStr(re_phi_dob_standalone_iso),
   description |-> <<"D", "a", "t", "e", " ", "P", "a", "t", "t", "e", "r", "n", " ", "(", "Y", "Y", "Y", "Y", "-", "M", "M", "-", "D", "D", ")">>,
   valve |-> "block_standalone_dates", severity |-> "medium"],
  [name |-> <<"p", "h", "i", "_", "d", "i", "a", "g", "n", "o", "s", "i", "s">>, regex |-> RegexStr(re_phi_diagnosis),
   description |-> <<"I", "C", "D", " ", "D", "i", "a", "g", "n", "o", "s", "i", "s", " ", "C", "o", "d", "e">>,
   valve |-> "block_phi", severity |-> "medium"],
  [name |-> <<"a", "p", "i", "_", "k", "e", "y">>, regex |-> RegexStr(re_api_key),
   description |-> <<"A", "P", "I", " ", "K", "e", "y">>,
   valve |-> "block_credentials", severity |-> "critical"],
  [name |-> <<"p", "a", "s", "s", "w", "o", "r", "d", "_", "i", "n", "l", "i", "n", "e">>, regex |-> RegexStr(re_password_inline),
   description |-> <<"I", "n", "l", "i", "n", "e", " ", "P", "a", "s", "s", "w", "o", "r", "d">>,
   valve |-> "block_credentials", severity |-> "critical"],
  [name |-> <<"c", "o", "n", "n", "e", "c", "t", "i", "o", "n", "_", "s", "t", "r", "i", "n", "g">>, regex |-> RegexStr(re_connection_string),
   description |-> <<"D", "a", "t", "a", "b", "a", "s", "e", " ", "C", "o", "n", "n", "e", "c", "t", "i", "o", "n", " ", "S", "t", "r", "i", "n", "g">>,
   valve |-> "block_credentials", severity |-> "critical"],
  [name |-> <<"a", "w", "s", "_", "k", "e", "y">>, regex |-> RegexStr(re_aws_key),
   description |-> <<"A", "W", "S", " ", "A", "c", "c", "e", "s", "s", " ", "K", "e", "y">>,
   valve |-> "block_credentials", severity |-> "critical"],
  [name |-> <<"p", "r", "i", "v", "a", "t", "e", "_", "k", "e", "y">>, regex |-> RegexStr(re_private_key),
   description |-> <<"P", "r", "i", "v", "a", "t", "e", " ", "K", "e", "y">>,
   valve |-> "block_credentials", severity |-> "critical"],
  [name |-> <<"b", "a", "n", "k", "_", "r", "o", "u", "t", "i", "n", "g">>, regex |-> RegexStr(re_bank_routing),
   description |-> <<"B", "a", "n", "k", " ", "R", "o", "u", "t", "i", "n", "g", " ", "N", "u", "m", "b", "e", "r">>,
   valve |-> "block_bank_accounts", severity |-> "critical"],
  [name |-> <<"b", "a", "n", "k", "_", "a", "c", "c", "o", "u", "n", "t">>, regex |-> RegexStr(re_bank_account),
   description |-> <<"B", "a", "n", "k", " ", "A", "c", "c", "o", "u", "n", "t", " ", "N", "u", "m", "b", "e", "r">>,
   valve |-> "block_bank_accounts", severity |-> "critical"]
>>

\* ---------------------------------------------------------------------------
\* Configuration
\* ---------------------------------------------------------------------------

\* The values custom_patterns takes in the model, each a JSON text.
CustomEmpty == "{}"
CustomProject == "{\"project_code\": \"PRJ-\\\\d{5}\"}"
CustomSelf == "{\"c\": \"custom\"}"
CustomTwo == "{\"zip\": \"\\\\b\\\\d{5}\\\\b\", \"alias\": \"\\\\bjdoe\\\\b\"}"
CustomMalformed == "{\"project_code\": "
CustomArray == "[\"PRJ-\\\\d{5}\"]"
CustomNumberValue == "{\"project_code\": 5}"
CustomBadRegex == "{\"project_code\": \"PRJ-(\"}"

CustomPatternTexts ==
  {CustomEmpty, CustomProject, CustomSelf, CustomTwo, CustomMalformed, CustomArray,
   CustomNumberValue, CustomBadRegex}

re_custom_project ==
  Cat(<<Lit(<<"p", "r", "j", "-">>), Rep(Set(Digits), 5, 5)>>)
re_custom_self ==
  Lit(<<"c", "u", "s", "t", "o", "m">>)
re_custom_zip ==
  Cat(<<WB, Rep(Set(Digits), 5, 5), WB>>)
re_custom_alias ==
  Cat(<<WB, Lit(<<"j", "d", "o", "e">>), WB>>)

\* json.loads on those texts: an object (its items in order), another JSON
\* value, or JSONDecodeError.
json_loads(text) ==
  CASE text = CustomEmpty -> Ok([type |-> "dict", items |-> <<>>])
    [] text = CustomProject ->
         Ok([type |-> "dict",
             items |-> << <<<<"p", "r", "o", "j", "e", "c", "t", "_", "c", "o", "d", "e">>, RegexStr(re_custom_project)>> >>])
    [] text = CustomSelf ->
         Ok([type |-> "dict", items |-> << <<<<"c">>, RegexStr(re_custom_self)>> >>])
    [] text = CustomTwo ->
         Ok([type |-> "dict",
             items |-> << <<<<"z", "i", "p">>, RegexStr(re_custom_zip)>>,
                          <<<<"a", "l", "i", "a", "s">>, RegexStr(re_custom_alias)>> >>])
    [] text = CustomMalformed -> Raise("JSONDecodeError")
    [] text = CustomArray -> Ok([type |-> "list"])
    [] text = CustomNumberValue ->
         Ok([type |-> "dict", items |-> << <<<<"p", "r", "o", "j", "e", "c", "t", "_", "c", "o", "d", "e">>, [type |-> "int"]>> >>])
    [] text = CustomBadRegex ->
         Ok([type |-> "dict", items |-> << <<<<"p", "r", "o", "j", "e", "c", "t", "_", "c", "o", "d", "e">>, [type |-> "str", valid |-> FALSE]>> >>])

\* Valves(): the defaults of every field.
DefaultValves ==
  [enabled |-> TRUE,
   mode |-> "block",
   block_ssn |-> TRUE,
   block_credit_cards |-> TRUE,
   block_phi |-> TRUE,
   block_credentials |-> TRUE,
   block_bank_accounts |-> TRUE,
   block_standalone_dates |-> TRUE,
   scan_file_uploads |-> TRUE,
   max_file_size_mb |-> 50,
   log_detections |-> TRUE,
   custom_patterns |-> CustomEmpty]

\* getattr(obj, name, default)
getattr(obj, name, default) == IF name \in DOMAIN obj THEN obj[name] ELSE default

\* ---------------------------------------------------------------------------
\* Pattern matching
\* ---------------------------------------------------------------------------

\* The built-in patterns whose valve is on, in registry order.
RECURSIVE ActiveBuiltins(_, _)
ActiveBuiltins(v, k) ==
  IF k > Len(patterns) THEN <<>>
  ELSE (IF getattr(v, patterns[k].valve, TRUE) THEN <<patterns[k]>> ELSE <<>>)
       \o ActiveBuiltins(v, k + 1)

CustomPattern(item) ==
  [name |-> <<"c", "u", "s", "t", "o", "m", "_">> \o item[1],
   regex |-> item[2],
   description |-> <<"C", "u", "s", "t", "o", "m", ":", " ">> \o item[1],
   valve |-> "enabled",
   severity |-> "high"]

\* _get_active_patterns: the active patterns in order, or the exception that
\* leaves the function (only JSONDecodeError and TypeError are caught).
_get_active_patterns(v) ==
  LET AddCustom(active, custom) ==
        IF ~IsOk(custom) THEN Ok(active)
        ELSE IF custom.val.type # "dict" THEN Raise("AttributeError")
        ELSE Ok(active \o [k \in 1..Len(custom.val.items) |->
                             CustomPattern(custom.val.items[k])])
  IN AddCustom(ActiveBuiltins(v, 1), json_loads(v.custom_patterns))

\* re.search(regex, text, re.IGNORECASE): whether there is a match, or the
\* exception (the pattern is compiled before the text is looked at).
re_search(regex, text) ==
  IF regex.type # "str" THEN Raise("TypeError")
  ELSE IF ~regex.valid THEN Raise("re.error")
  ELSE IF text = None THEN Raise("TypeError")
  ELSE Ok(Search(regex.ast, text))

\* re.sub(regex, repl, text, flags=re.IGNORECASE)
re_sub(regex, repl, text) ==
  IF regex.type # "str" THEN Raise("TypeError")
  ELSE IF ~regex.valid THEN Raise("re.error")
  ELSE IF text = None THEN Raise("TypeError")
  ELSE Ok(Sub(regex.ast, repl, text))

Detection(pattern) == <<pattern.name, pattern.description, pattern.severity>>

RECURSIVE ScanLoop(_, _, _, _)
ScanLoop(active, k, text, detections) ==
  IF k > Len(active) THEN Ok(detections)
  ELSE LET Searched(m) ==
             IF ~IsOk(m) THEN m
             ELSE ScanLoop(active, k + 1, text,
                           IF m.val THEN Append(detections, Detection(active[k]))
                           ELSE detections)
       IN Searched(re_search(active[k].regex, text))

\* _scan_text: one (name, description, severity) per active pattern that
\* matches, or the exception raised on the way.
_scan_text(v, text) ==
  LET Scan(active) == IF ~IsOk(active) THEN active ELSE ScanLoop(active.val, 1, text, <<>>)
  IN Scan(_get_active_patterns(v))

Placeholder(name) == <<"[", "R", "E", "D", "A", "C", "T", "E", "D", "-">> \o upper(name) \o <<"]">>

RECURSIVE RedactLoop(_, _, _)
RedactLoop(active, k, redacted) ==
  IF k > Len(active) THEN Ok(redacted)
  ELSE LET Substituted(r) == IF ~IsOk(r) THEN r ELSE RedactLoop(active, k + 1, r.val)
       IN Substituted(re_sub(active[k].regex, Placeholder(active[k].name), redacted))

\* _redact_text: the patterns applied one after the other to the rewritten text.
_redact_text(v, text) ==
  LET Rewrite(active) == IF ~IsOk(active) THEN active ELSE RedactLoop(active.val, 1, text)
  IN Rewrite(_get_active_patterns(v))

\* ---------------------------------------------------------------------------
\* File text extraction
\* ---------------------------------------------------------------------------

MB == 1024 * 1024

\* What lies under UPLOAD_DIR, by file id: the size on disk, the text a
\* decoder or a plain read yields, and what fails on the file ("getsize": it
\* is gone between glob and stat; "read": it cannot be opened or decoded).
Uploads ==
  [up_ssn     |-> [size |-> 2048, text |-> <<"s", "s", "n", " ", "1", "2", "3", "-", "4", "5", "-", "6", "7", "8", "9">>, fault |-> ""],
   up_clean   |-> [size |-> 512, text |-> <<"m", "i", "n", "u", "t", "e", "s">>, fault |-> ""],
   up_big     |-> [size |-> 50 * MB + 1, text |-> <<"s", "s", "n", " ", "1", "2", "3", "-", "4", "5", "-", "6", "7", "8", "9">>, fault |-> ""],
   up_2mb     |-> [size |-> 2 * MB, text |-> <<"A", "K", "I", "A", "A", "B", "C", "D", "E", "F", "G", "H", "I", "J", "K", "L", "M", "N", "O", "P">>, fault |-> ""],
   up_edge    |-> [size |-> 50 * MB, text |-> <<"a", "c", "c", "t", " ", "1", "2", "3", "4", "5", "6", "7", "8">>, fault |-> ""],
   up_empty   |-> [size |-> 0, text |-> <<>>, fault |-> ""],
   up_corrupt |-> [size |-> 512, text |-> <<"s", "s", "n", " ", "1", "2", "3", "-", "4", "5", "-", "6", "7", "8", "9">>, fault |-> "read"],
   up_gone    |-> [size |-> 512, text |-> <<"s", "s", "n", " ", "1", "2", "3", "-", "4", "5", "-", "6", "7", "8", "9">>, fault |-> "getsize"]]

\* Decoder libraries that are not installed (their import fails).
MissingDecoders == {<<"p", "p", "t", "x">>}

\* _resolve_file_path: the path of the upload that carries the id, or None.
_resolve_file_path(file_id) ==
  IF file_id \in DOMAIN Uploads THEN [found |-> TRUE, path |-> file_id]
  ELSE [found |-> FALSE]

\* os.path.getsize
getsize(path) ==
  IF Uploads[path].fault = "getsize" THEN Raise("OSError") ELSE Ok(Uploads[path].size)

RECURSIVE LastDot(_, _)
LastDot(name, i) == IF i = 0 \/ name[i] = "." THEN i ELSE LastDot(name, i - 1)

\* _get_file_extension: the part after the last dot, lowered; "" without a dot.
_get_file_extension(file_name) ==
  LET d == LastDot(file_name, Len(file_name))
  IN IF d = 0 THEN <<>> ELSE lower(SubSeq(file_name, d + 1, Len(file_name)))

extractors ==
  {<<"x", "l", "s", "x">>, <<"x", "l", "s", "m">>, <<"x", "l", "s">>, <<"c", "s", "v">>, <<"t", "s", "v">>, <<"p", "d", "f">>, <<"d", "o", "c", "x">>, <<"p", "p", "t", "x">>}

text_extensions ==
  {<<"t", "x", "t">>, <<"m", "d">>, <<"j", "s", "o", "n">>, <<"x", "m", "l">>, <<"y", "a", "m", "l">>, <<"y", "m", "l">>, <<"l", "o", "g">>, <<"p", "y">>, <<"j", "s">>,
   <<"t", "s">>, <<"h", "t", "m", "l">>, <<"c", "s", "s">>, <<"s", "q", "l">>, <<"s", "h">>, <<"b", "a", "t">>, <<"i", "n", "i">>, <<"c", "f", "g">>, <<"c", "o", "n", "f">>,
   <<"e", "n", "v">>, <<"p", "r", "o", "p", "e", "r", "t", "i", "e", "s">>}

\* _extract_text_from_file: the text (val), whether the file was opened by a
\* decoder or a plain read (opened), or the exception of that read.
_extract_text_from_file(file_path, file_name) ==
  LET ext == _get_file_extension(file_name)
  IN IF ext \in extractors \/ ext \in text_extensions
     THEN IF ext \in MissingDecoders THEN [exc |-> "", val |-> <<>>, opened |-> FALSE]
          ELSE IF Uploads[file_path].fault = "read" THEN Raise("OSError")
          ELSE [exc |-> "", val |-> Uploads[file_path].text, opened |-> TRUE]
     ELSE [exc |-> "", val |-> <<>>, opened |-> FALSE]

\* ---------------------------------------------------------------------------
\* File scanning
\* ---------------------------------------------------------------------------

\* dict.get(key, default)
get(d, key, default) == IF key \in DOMAIN d THEN d[key] ELSE default

\* A JSON string where a mapping is expected is [str |-> ...].
isdict(x) == "str" \notin DOMAIN x

\* A size compared in the wrong unit: megabytes against the limit in bytes.
SizeInMegabytesExceeds(file_size, max_bytes) == file_size \div MB > max_bytes

\* file_size > max_bytes
TooLarge(file_size, max_bytes) == file_size > max_bytes

\* The body of the try block of _scan_files for one file reference: what
\* became of the file (fate), its detections, or the exception raised.
ScanOneFile(v, file_id, file_name) ==
  LET max_bytes == v.max_file_size_mb * 1024 * 1024
      Scanned(detections) ==
        IF ~IsOk(detections) THEN detections
        ELSE [exc |-> "",
              fate |-> IF Len(detections.val) > 0 THEN "flagged" ELSE "clean",
              detections |-> detections.val]
      Extracted(text) ==
        IF ~IsOk(text) THEN text
        ELSE IF Len(text.val) = 0
        THEN [exc |-> "",
              fate |-> IF text.opened THEN "no_text" ELSE "not_opened",
              detections |-> <<>>]
        ELSE Scanned(_scan_text(v, text.val))
      Sized(file_path, file_size) ==
        IF ~IsOk(file_size) THEN file_size
        ELSE IF TooLarge(file_size.val, max_bytes)
        THEN [exc |-> "", fate |-> "too_large", detections |-> <<>>]
        ELSE Extracted(_extract_text_from_file(file_path.path, file_name))
      Resolved(file_path) ==
        IF ~file_path.found THEN [exc |-> "", fate |-> "not_found", detections |-> <<>>]
        ELSE Sized(file_path, getsize(file_path.path))
  IN Resolved(_resolve_file_path(file_id))

\* An except clause narrowed to OSError: other exceptions leave the loop.
CatchOnlyOSError(r) ==
  IF r.exc = "OSError" THEN [exc |-> "", fate |-> "error", detections |-> <<>>] ELSE r

\* except Exception: continue
CatchFileError(r) ==
  IF ~IsOk(r) THEN [exc |-> "", fate |-> "error", detections |-> <<>>] ELSE r

\* One pass of the loop of _scan_files: the skips before the try block, the
\* try block, and its except clause, which catches every exception.
ScanFileRef(v, file_ref) ==
  IF ~isdict(file_ref) THEN [exc |-> "", fate |-> "not_dict", detections |-> <<>>]
  ELSE IF get(file_ref, "type", "") \notin {"file", ""}
  THEN [exc |-> "", fate |-> "other_type", detections |-> <<>>]
  ELSE IF get(file_ref, "id", "") = ""
  THEN [exc |-> "", fate |-> "no_id", detections |-> <<>>]
  ELSE CatchFileError(ScanOneFile(v, get(file_ref, "id", ""),
                                   get(file_ref, "name", <<"u", "n", "k", "n", "o", "w", "n">>)))

RECURSIVE ScanFilesLoop(_, _, _, _, _)
ScanFilesLoop(v, files, k, flagged_files, fates) ==
  IF k > Len(files) THEN [exc |-> "", val |-> flagged_files, fates |-> fates]
  ELSE LET Continue(r) ==
             IF ~IsOk(r) THEN r
             ELSE ScanFilesLoop(v, files, k + 1,
                    IF r.fate = "flagged"
                    THEN Append(flagged_files,
                                <<get(files[k], "name", <<"u", "n", "k", "n", "o", "w", "n">>), r.detections>>)
                    ELSE flagged_files,
                    Append(fates, r.fate))
       IN Continue(ScanFileRef(v, files[k]))

\* _scan_files: (file_name, detections) of every file with detections, in the
\* order of the file list; fates records what became of each reference.
_scan_files(v, body) ==
  ScanFilesLoop(v, get(body, "files", <<>>), 1, <<>>, <<>>)

\* ---------------------------------------------------------------------------
\* Pipeline hooks
\* ---------------------------------------------------------------------------

EmptyContentText == <<"P", "l", "e", "a", "s", "e", " ", "a", "n", "a", "l", "y", "z", "e", " ", "t", "h", "e", " ", "a", "t", "t", "a", "c", "h", "e", "d", " ", "f", "i", "l", "e", ".">>

\* not s.strip()
IsBlank(s) == \A i \in 1..Len(s) : s[i] \in Space

\* Message content is a string, [kind |-> "str", text |-> ...], or a list of
\* content blocks, [kind |-> "list", items |-> ...].
SanitizeItem(item) ==
  IF item.type = "text" /\ IsBlank(get(item, "text", <<>>))
  THEN [text |-> EmptyContentText] @@ item
  ELSE item

\* The sanitizing loop skipping every message that is not the user's.
SanitizeUserMessage(message) ==
  IF message.role # "user" THEN message
  ELSE IF message.content.kind = "list"
  THEN [message EXCEPT !.content.items =
          [k \in 1..Len(message.content.items) |-> SanitizeItem(message.content.items[k])]]
  ELSE IF IsBlank(message.content.text)
  THEN [message EXCEPT !.content.text = EmptyContentText]
  ELSE message

SanitizeMessage(message) ==
  IF message.content.kind = "list"
  THEN [message EXCEPT !.content.items =
          [k \in 1..Len(message.content.items) |-> SanitizeItem(message.content.items[k])]]
  ELSE IF IsBlank(message.content.text)
  THEN [message EXCEPT !.content.text = EmptyContentText]
  ELSE message

\* The first loop of inlet: every message, whatever its role.
Sanitize(messages) == [k \in 1..Len(messages) |-> SanitizeMessage(messages[k])]

RECURSIVE Join(_, _)
Join(sep, parts) ==
  IF Len(parts) = 0 THEN <<>>
  ELSE IF Len(parts) = 1 THEN parts[1]
  ELSE parts[1] \o sep \o Join(sep, Tail(parts))

TextParts(items) == SelectSeq(items, LAMBDA item : item.type = "text")

\* text_to_scan of one message.
TextToScan(message) ==
  IF message.content.kind = "list"
  THEN Join(<<" ">>, [k \in 1..Len(TextParts(message.content.items)) |->
                        get(TextParts(message.content.items)[k], "text", <<>>)])
  ELSE message.content.text

RECURSIVE ScanMessages(_, _, _, _)
ScanMessages(v, messages, k, message_detections) ==
  IF k > Len(messages) THEN Ok(message_detections)
  ELSE IF messages[k].role # "user" THEN ScanMessages(v, messages, k + 1, message_detections)
  ELSE LET Extend(detections) ==
             IF ~IsOk(detections) THEN detections
             ELSE ScanMessages(v, messages, k + 1, message_detections \o detections.val)
       IN Extend(_scan_text(v, TextToScan(messages[k])))

Descriptions(detections) == {detections[k][2] : k \in 1..Len(detections)}

\* The exception of block mode; the message is kept by its parts (the
\* descriptions found in the text, and per flagged file its name and
\* descriptions) rather than by its characters.
BlockedError(message_detections, file_detections) ==
  [exc |-> "Exception",
   title |-> "DLP Filter Blocked This Message",
   text_types |-> Descriptions(message_detections),
   file_lines |-> [k \in 1..Len(file_detections) |->
                     <<file_detections[k][1], Descriptions(file_detections[k][2])>>]]

\* The loops that rewrite in place give the list as the exception leaves it.
RECURSIVE RedactItems(_, _, _)
RedactItems(v, items, k) ==
  IF k > Len(items) THEN Ok(items)
  ELSE IF items[k].type # "text" THEN RedactItems(v, items, k + 1)
  ELSE LET Assign(r) ==
             IF ~IsOk(r) THEN [exc |-> r.exc, val |-> items]
             ELSE RedactItems(v, [items EXCEPT ![k].text = r.val], k + 1)
       IN Assign(_redact_text(v, items[k].text))

RECURSIVE RedactMessages(_, _, _)
RedactMessages(v, messages, k) ==
  IF k > Len(messages) THEN Ok(messages)
  ELSE IF messages[k].role # "user" THEN RedactMessages(v, messages, k + 1)
  ELSE IF messages[k].content.kind = "list"
  THEN LET AssignItems(r) ==
             IF ~IsOk(r)
             THEN [exc |-> r.exc, val |-> [messages EXCEPT ![k].content.items = r.val]]
             ELSE RedactMessages(v, [messages EXCEPT ![k].content.items = r.val], k + 1)
       IN AssignItems(RedactItems(v, messages[k].content.items, 1))
  ELSE LET Assign(r) ==
             IF ~IsOk(r) THEN [exc |-> r.exc, val |-> messages]
             ELSE RedactMessages(v, [messages EXCEPT ![k].content.text = r.val], k + 1)
       IN Assign(_redact_text(v, messages[k].content.text))

\* The filter with its condition inverted: the flagged files are the ones kept.
StripFilesInverted(files, flagged_names) ==
  IF \E k \in 1..Len(files) : ~isdict(files[k]) THEN Raise("AttributeError")
  ELSE Ok(SelectSeq(files, LAMBDA f : get(f, "name", None) \in flagged_names))

\* [f for f in files if f.get("name") not in flagged_names]; a list element
\* that is no mapping has no get.
StripFiles(files, flagged_names) ==
  IF \E k \in 1..Len(files) : ~isdict(files[k]) THEN Raise("AttributeError")
  ELSE Ok(SelectSeq(files, LAMBDA f : get(f, "name", None) \notin flagged_names))

NoticeHead ==
  <<"[", "D", "L", "P", " ", "N", "o", "t", "i", "c", "e", "]", " ", "T", "h", "e", " ", "f", "o", "l", "l", "o", "w", "i", "n", "g", " ", "f", "i", "l", "e", "s", " ", "w", "e", "r", "e", " ", "r", "e", "m", "o", "v", "e", "d", " ", "b", "e", "c", "a", "u", "s", "e", " ", "t", "h", "e", "y", " ", "c", "o", "n", "t", "a", "i", "n", " ", "s", "e", "n", "s", "i", "t", "i", "v", "e", " ", "d", "a", "t", "a", ":", " ">>
NoticeTail == <<".", " ", "T", "h", "e", " ", "A", "I", " ", "w", "i", "l", "l", " ", "n", "o", "t", " ", "s", "e", "e", " ", "t", "h", "e", "s", "e", " ", "f", "i", "l", "e", "s", ".">>

\* The notice that names only the first of the flagged files.
NoticeOfFirst(names) ==
  [role |-> "system",
   content |-> [kind |-> "str",
                text |-> NoticeHead \o Join(<<",", " ">>, SubSeq(names, 1, 1)) \o NoticeTail]]

\* The system message appended after files were stripped; names is the
\* order in which the set of flagged names is iterated.
Notice(names) ==
  [role |-> "system",
   content |-> [kind |-> "str", text |-> NoticeHead \o Join(<<",", " ">>, names) \o NoticeTail]]

\* The orders in which a set can be iterated.
Orderings(S) ==
  {s \in [1..Cardinality(S) -> S] : \A i, j \in 1..Cardinality(S) : s[i] = s[j] => i = j}

FlaggedNames(file_detections) == {file_detections[k][1] : k \in 1..Len(file_detections)}

\* The redact branch of inlet on the sanitized body b: val is the body as
\* the branch leaves it, also when it raises.
Redact(v, b, message_detections, file_detections, names) ==
  LET flagged_names == FlaggedNames(file_detections)
      Notified(b3) == Ok([b3 EXCEPT !.messages = Append(b3.messages, Notice(names))])
      MetadataStripped(b2, meta_files) ==
        IF ~IsOk(meta_files) THEN [exc |-> meta_files.exc, val |-> b2]
        ELSE Notified([b2 EXCEPT !.metadata.files = meta_files.val])
      FilesStripped(b1, clean_files) ==
        IF ~IsOk(clean_files) THEN [exc |-> clean_files.exc, val |-> b1]
        ELSE IF "files" \in DOMAIN get(b1, "metadata", [none |-> TRUE])
        THEN MetadataStripped([b1 EXCEPT !.files = clean_files.val],
                              StripFiles(b1.metadata.files, flagged_names))
        ELSE Notified([b1 EXCEPT !.files = clean_files.val])
      Redacted(redacted) ==
        IF ~IsOk(redacted) \/ Len(file_detections) = 0
        THEN [exc |-> redacted.exc, val |-> [b EXCEPT !.messages = redacted.val]]
        ELSE FilesStripped([b EXCEPT !.messages = redacted.val],
                           StripFiles(b.files, flagged_names))
  IN Redacted(IF Len(message_detections) > 0 THEN RedactMessages(v, b.messages, 1)
              ELSE Ok(b.messages))

\* inlet up to the decision: the sanitized body and what was detected, or
\* the exception raised while scanning.
InletScan(v, body) ==
  LET b == [body EXCEPT !.messages = Sanitize(body.messages)]
      FilesScanned(message_detections, scanned) ==
        IF ~IsOk(scanned) THEN [exc |-> scanned.exc, body |-> b]
        ELSE [exc |-> "", body |-> b,
              message_detections |-> message_detections.val,
              file_detections |-> scanned.val,
              fates |-> scanned.fates]
      MessagesScanned(message_detections) ==
        IF ~IsOk(message_detections) THEN [exc |-> message_detections.exc, body |-> b]
        ELSE FilesScanned(message_detections,
                          IF v.scan_file_uploads THEN _scan_files(v, b)
                          ELSE [exc |-> "", val |-> <<>>, fates |-> <<>>])
  IN MessagesScanned(ScanMessages(v, b.messages, 1, <<>>))

\* inlet rejecting under every mode that is not 'redact'.
InletFailClosed(v, body, scan, names) ==
  IF ~v.enabled THEN [exc |-> "", body |-> body, scanned |-> FALSE]
  ELSE IF ~IsOk(scan) THEN [exc |-> scan.exc, body |-> scan.body, scanned |-> FALSE]
  ELSE LET md == scan.message_detections
           fd == scan.file_detections
           out == [exc |-> "", body |-> scan.body, scanned |-> TRUE,
                   message_detections |-> md, file_detections |-> fd,
                   fates |-> scan.fates]
       IN IF Len(md) = 0 /\ Len(fd) = 0 THEN out
          ELSE IF v.mode = "redact"
          THEN LET Left(r) == [out EXCEPT !.exc = r.exc, !.body = r.val]
               IN Left(Redact(v, scan.body, md, fd, names))
          ELSE [out EXCEPT !.exc = "Exception"] @@ [error |-> BlockedError(md, fd)]

\* inlet: exc is "" when it returns and names the exception when it
\* raises; body is the request as the call leaves it (it is rewritten in
\* place); the detections and the fates of the files are kept beside it.
inlet(v, body, scan, names) ==
  IF ~v.enabled THEN [exc |-> "", body |-> body, scanned |-> FALSE]
  ELSE IF ~IsOk(scan) THEN [exc |-> scan.exc, body |-> scan.body, scanned |-> FALSE]
  ELSE LET md == scan.message_detections
           fd == scan.file_detections
           out == [exc |-> "", body |-> scan.body, scanned |-> TRUE,
                   message_detections |-> md, file_detections |-> fd,
                   fates |-> scan.fates]
       IN IF Len(md) = 0 /\ Len(fd) = 0 THEN out
          ELSE IF v.mode = "block"
          THEN [out EXCEPT !.exc = "Exception"] @@ [error |-> BlockedError(md, fd)]
          ELSE IF v.mode = "redact"
          THEN LET Left(r) == [out EXCEPT !.exc = r.exc, !.body = r.val]
               IN Left(Redact(v, scan.body, md, fd, names))
          ELSE out

RECURSIVE OutletLoop(_, _, _)
OutletLoop(v, messages, k) ==
  IF k > Len(messages) THEN Ok(messages)
  ELSE IF messages[k].role # "assistant" \/ messages[k].content.kind # "str"
  THEN OutletLoop(v, messages, k + 1)
  ELSE LET Assign(r) ==
             IF ~IsOk(r) THEN [exc |-> r.exc, val |-> messages]
             ELSE OutletLoop(v, [messages EXCEPT ![k].content.text = r.val], k + 1)
           Scanned(detections) ==
             IF ~IsOk(detections) THEN [exc |-> detections.exc, val |-> messages]
             ELSE IF Len(detections.val) = 0 THEN OutletLoop(v, messages, k + 1)
             ELSE Assign(_redact_text(v, messages[k].content.text))
       IN Scanned(_scan_text(v, messages[k].content.text))

\* outlet: exc is "" when it returns and names the exception when it raises;
\* body is the response as the call leaves it.
outlet(v, body) ==
  IF ~v.enabled THEN [exc |-> "", body |-> body]
  ELSE LET Left(r) == [exc |-> r.exc, body |-> [body EXCEPT !.messages = r.val]]
       IN Left(OutletLoop(v, body.messages, 1))

\* ---------------------------------------------------------------------------
\* Specification of the text functions: a configuration and a text are
\* drawn, and _scan_text or _redact_text is applied
\* ---------------------------------------------------------------------------

\* Texts in which the rewriting of one detector uncovers a match of another.
TextCustomWord == <<"a", " ", "c", "u", "s", "t", "o", "m", " ", "r", "u", "l", "e">>
TextDobThenDigits == <<"1", "2", "3", "4", "5", "6", "7", "8", "9", " ", "d", "o", "b", " ", "j", "a", "n", " ", "5", " ", "1", "9", "9", "9", "1", "2", "3", "4", "5", "6", "7", "8", "9">>
TextPwdThenAccount == <<"p", "w", "d", "=", "h", "u", "n", "t", "e", "r", "2", "2", " ", "p", "w", "d", "=", " ", "a", "c", "c", "t", " ", "1", "2", "3", "4", "5", "6", "7", "8">>

SampleTexts ==
  {<<>>,
   <<"M", "y", " ", "S", "S", "N", " ", "i", "s", " ", "1", "2", "3", "-", "4", "5", "-", "6", "7", "8", "9">>,
   <<"h", "e", "l", "l", "o", " ", "t", "e", "a", "m">>,
   <<"s", "e", "e", " ", "P", "R", "J", "-", "1", "2", "3", "4", "5">>,
   <<"1", "2", "3", "-", "4", "5", "-", "6", "7", "8", "9", " ", "a", "n", "d", " ", "9", "8", "7", " ", "6", "5", " ", "4", "3", "2", "1">>,
   <<"k", "e", "y", " ", "A", "K", "I", "A", "A", "B", "C", "D", "E", "F", "G", "H", "I", "J", "K", "L", "M", "N", "O", "P">>,
   <<"c", "a", "r", "d", " ", "4", "1", "1", "1", "-", "1", "1", "1", "1", "-", "1", "1", "1", "1", "-", "1", "1", "1", "1">>,
   TextCustomWord, TextDobThenDigits, TextPwdThenAccount}

TextConfigs ==
  {DefaultValves} \cup
  {[DefaultValves EXCEPT !.custom_patterns = c] : c \in CustomPatternTexts} \cup
  {[DefaultValves EXCEPT ![k] = FALSE] :
     k \in {"block_ssn", "block_credit_cards", "block_phi", "block_credentials",
            "block_bank_accounts", "block_standalone_dates"}}

TextInit ==
  /\ valves \in TextConfigs
  /\ op = ""
  /\ arg = <<>>
  /\ res = <<>>

CallScanText(text) ==
  /\ op = ""
  /\ op' = "_scan_text"
  /\ arg' = text
  /\ res' = _scan_text(valves, text)
  /\ UNCHANGED valves

CallRedactText(text) ==
  /\ op = ""
  /\ op' = "_redact_text"
  /\ arg' = text
  /\ res' = _redact_text(valves, text)
  /\ UNCHANGED valves

TextNext ==
  \/ \E text \in SampleTexts \cup {None} : CallScanText(text)
  \/ \E text \in SampleTexts : CallRedactText(text)

SpecText == TextInit /\ [][TextNext]_vars

\* ---------------------------------------------------------------------------
\* Requests and responses
\* ---------------------------------------------------------------------------

Str(text) == [kind |-> "str", text |-> text]
List(items) == [kind |-> "list", items |-> items]
TextItem(text) == [type |-> "text", text |-> text]
ImageItem == [type |-> "image_url", image_url |-> "data:image/png"]

RefSsn == [type |-> "file", id |-> "up_ssn", name |-> <<"s", "s", "n", ".", "t", "x", "t">>]
RefClean == [type |-> "file", id |-> "up_clean", name |-> <<"n", "o", "t", "e", "s", ".", "m", "d">>]
RefCleanSameName == [type |-> "file", id |-> "up_clean", name |-> <<"s", "s", "n", ".", "t", "x", "t">>]
RefBig == [type |-> "file", id |-> "up_big", name |-> <<"b", "i", "g", ".", "c", "s", "v">>]
Ref2mb == [id |-> "up_2mb", name |-> <<"r", "e", "p", "o", "r", "t", ".", "X", "L", "S", "X">>]
RefEdge == [type |-> "", id |-> "up_edge", name |-> <<"e", "d", "g", "e", ".", "l", "o", "g">>]
RefBin == [type |-> "file", id |-> "up_ssn", name |-> <<"b", "l", "o", "b", ".", "b", "i", "n">>]
RefNoExt == [type |-> "file", id |-> "up_ssn", name |-> <<"R", "E", "A", "D", "M", "E">>]
RefNoName == [type |-> "file", id |-> "up_ssn"]
RefCollection == [type |-> "collection", id |-> "up_ssn", name |-> <<"s", "s", "n", ".", "t", "x", "t">>]
RefNoId == [type |-> "file", name |-> <<"s", "s", "n", ".", "t", "x", "t">>]
RefMissing == [type |-> "file", id |-> "up_missing", name |-> <<"l", "o", "s", "t", ".", "t", "x", "t">>]
RefPptx == [type |-> "file", id |-> "up_ssn", name |-> <<"d", "e", "c", "k", ".", "p", "p", "t", "x">>]
RefEmpty == [type |-> "file", id |-> "up_empty", name |-> <<"e", "m", "p", "t", "y", ".", "t", "x", "t">>]
RefCorrupt == [type |-> "file", id |-> "up_corrupt", name |-> <<"b", "a", "d", ".", "p", "d", "f">>]
RefGone == [type |-> "file", id |-> "up_gone", name |-> <<"g", "o", "n", "e", ".", "t", "x", "t">>]
RefString == [str |-> "up_ssn"]

User(content) == [role |-> "user", content |-> content]
Assistant(content) == [role |-> "assistant", content |-> content]
System(content) == [role |-> "system", content |-> content]

ReqClean == [messages |-> <<User(Str(<<"h", "e", "l", "l", "o">>))>>]
ReqSsn ==
  [messages |-> <<System(Str(<<>>)), User(Str(<<"s", "s", "n", " ", "1", "2", "3", "-", "4", "5", "-", "6", "7", "8", "9">>)), Assistant(Str(<<"o", "k">>))>>]
ReqEmptyUser ==
  [messages |-> <<User(Str(<<>>))>>, files |-> <<RefClean>>]
ReqBlankOthers ==
  [messages |-> <<System(Str(<<>>)), User(List(<<TextItem(<<" ">>), ImageItem>>)),
                  Assistant(Str(<<" ", " ">>))>>,
   files |-> <<RefClean>>,
   metadata |-> [files |-> <<RefClean>>]]
ReqFileSsn ==
  [messages |-> <<User(Str(<<"h", "e", "l", "l", "o">>))>>,
   files |-> <<RefSsn, RefClean>>,
   metadata |-> [files |-> <<RefSsn, RefClean>>]]
ReqFaultyFiles ==
  [messages |-> <<User(Str(<<"s", "s", "n", " ", "1", "2", "3", "-", "4", "5", "-", "6", "7", "8", "9">>))>>,
   files |-> <<RefCorrupt, RefGone, RefSsn>>]
ReqGatedFiles ==
  [messages |-> <<User(Str(<<"h", "e", "l", "l", "o">>))>>,
   files |-> <<RefBig, RefBin, RefNoExt, RefNoName, RefEdge>>,
   metadata |-> [chat_id |-> "c1"]]
ReqSkippedFiles ==
  [messages |-> <<User(Str(<<"h", "e", "l", "l", "o">>))>>,
   files |-> <<RefString, RefCollection, RefNoId, RefMissing, RefPptx, RefEmpty>>]
ReqStringRef ==
  [messages |-> <<User(Str(<<"h", "e", "l", "l", "o">>))>>, files |-> <<RefString, Ref2mb>>]
ReqSplit ==
  [messages |-> <<User(List(<<TextItem(<<"1", "2", "3", "-", "4", "5">>), TextItem(<<"6", "7", "8", "9">>), [type |-> "text"]>>))>>,
   files |-> <<RefSsn, Ref2mb>>,
   metadata |-> [files |-> <<RefSsn, Ref2mb>>]]
ReqNoUser ==
  [messages |-> <<Assistant(Str(<<"s", "s", "n", " ", "1", "2", "3", "-", "4", "5", "-", "6", "7", "8", "9">>))>>, files |-> <<RefSsn>>]
ReqProject == [messages |-> <<User(Str(<<"P", "R", "J", "-", "1", "2", "3", "4", "5">>)), User(Str(<<"h", "e", "l", "l", "o">>))>>]
ReqSameName ==
  [messages |-> <<User(Str(<<"h", "e", "l", "l", "o">>))>>,
   files |-> <<RefCleanSameName, RefSsn, RefNoName>>,
   metadata |-> [files |-> <<RefCleanSameName, RefSsn, RefNoName>>]]
ReqMetaString ==
  [messages |-> <<User(Str(<<"h", "e", "l", "l", "o">>))>>,
   files |-> <<RefSsn>>,
   metadata |-> [files |-> <<RefString>>]]

Requests ==
  {ReqClean, ReqSsn, ReqEmptyUser, ReqBlankOthers, ReqFileSsn, ReqFaultyFiles,
   ReqGatedFiles, ReqSkippedFiles, ReqStringRef, ReqSplit, ReqNoUser, ReqProject,
   ReqSameName, ReqMetaString}

Responses ==
  {[messages |-> <<User(Str(<<"s", "s", "n", " ", "1", "2", "3", "-", "4", "5", "-", "6", "7", "8", "9">>)), Assistant(Str(<<"i", "t", " ", "i", "s", " ", "1", "2", "3", "-", "4", "5", "-", "6", "7", "8", "9">>))>>],
   [messages |-> <<Assistant(List(<<TextItem(<<"s", "s", "n", " ", "1", "2", "3", "-", "4", "5", "-", "6", "7", "8", "9">>)>>))>>],
   [messages |-> <<User(Str(<<"h", "e", "l", "l", "o">>)), Assistant(Str(<<"h", "i">>))>>],
   [messages |-> <<System(Str(<<"s", "s", "n", " ", "1", "2", "3", "-", "4", "5", "-", "6", "7", "8", "9">>)), Assistant(Str(<<"P", "R", "J", "-", "1", "2", "3", "4", "5">>)),
                   Assistant(Str(<<"A", "K", "I", "A", "A", "B", "C", "D", "E", "F", "G", "H", "I", "J", "K", "L", "M", "N", "O", "P">>))>>],
   [messages |-> <<User(Str(<<"s", "s", "n", " ", "1", "2", "3", "-", "4", "5", "-", "6", "7", "8", "9">>))>>]}

\* ---------------------------------------------------------------------------
\* The pipeline between the admin surface and the host: one call at a time,
\* the valves edited between calls
\* ---------------------------------------------------------------------------

\* How many valves may differ from their defaults at once.
MaxChangedValves == 1

Toggles ==
  {"block_ssn", "block_credit_cards", "block_phi", "block_credentials",
   "block_bank_accounts", "block_standalone_dates"}

ValveValues(k) ==
  CASE k = "mode" -> {"block", "redact", "Block", "audit"}
    [] k = "max_file_size_mb" -> {50, 1}
    [] k = "custom_patterns" -> CustomPatternTexts
    [] OTHER -> BOOLEAN

Changed(v) == Cardinality({k \in DOMAIN v : v[k] # DefaultValves[k]})

Idle == op = ""

Init ==
  /\ valves = DefaultValves
  /\ op = ""
  /\ arg = <<>>
  /\ res = <<>>

\* The admin surface sets one valve.
SetValve(k, val) ==
  /\ Idle
  /\ val # valves[k]
  /\ valves' = [valves EXCEPT ![k] = val]
  /\ UNCHANGED <<op, arg, res>>

\* The orders the set of flagged names may be iterated in, where inlet
\* iterates it.
NoticeOrders(v, scan) ==
  IF v.enabled /\ IsOk(scan) /\ v.mode = "redact"
  THEN Orderings(FlaggedNames(scan.file_detections))
  ELSE {<<>>}

Inlet(body) ==
  /\ Idle
  /\ \E scan \in {IF valves.enabled THEN InletScan(valves, body) ELSE Raise("")} :
       \E names \in NoticeOrders(valves, scan) :
         res' = inlet(valves, body, scan, names)
  /\ op' = "inlet"
  /\ arg' = body
  /\ UNCHANGED valves

Outlet(body) ==
  /\ Idle
  /\ res' = outlet(valves, body)
  /\ op' = "outlet"
  /\ arg' = body
  /\ UNCHANGED valves

\* The host takes the result; the pipeline is ready for the next call.
Return ==
  /\ ~Idle
  /\ op' = ""
  /\ arg' = <<>>
  /\ res' = <<>>
  /\ UNCHANGED valves

Next ==
  \/ \E k \in DOMAIN DefaultValves : \E val \in ValveValues(k) :
       SetValve(k, val) /\ Changed(valves') <= MaxChangedValves
  \/ \E body \in Requests : Inlet(body)
  \/ \E body \in Responses : Outlet(body)
  \/ Return

Spec == Init /\ [][Next]_vars

\* ---------------------------------------------------------------------------
\* The registry under every sequence of toggle and custom-pattern changes
\* ---------------------------------------------------------------------------

CallGetActivePatterns ==
  /\ Idle
  /\ res' = _get_active_patterns(valves)
  /\ op' = "_get_active_patterns"
  /\ arg' = <<>>
  /\ UNCHANGED valves

RegistryNext ==
  \/ \E k \in Toggles : \E val \in BOOLEAN : SetValve(k, val)
  \/ \E val \in CustomPatternTexts : SetValve("custom_patterns", val)
  \/ CallGetActivePatterns
  \/ Return

SpecRegistry == Init /\ [][RegistryNext]_vars

\* ---------------------------------------------------------------------------
\* Properties
\* ---------------------------------------------------------------------------

Range(s) == {s[k] : k \in DOMAIN s}

Files(body) == get(body, "files", <<>>)

\* A user message whose scanned text produced a finding.
MessageFinding(v, message) ==
  /\ message.role = "user"
  /\ LET detections == _scan_text(v, TextToScan(SanitizeMessage(message)))
     IN IsOk(detections) /\ Len(detections.val) > 0

\* An attachment whose scan produced a finding, file scanning being on.
FileFinding(v, file_ref) ==
  v.scan_file_uploads /\ ScanFileRef(v, file_ref).fate = "flagged"

HasFinding(v, body) ==
  \/ \E k \in DOMAIN body.messages : MessageFinding(v, body.messages[k])
  \/ \E k \in DOMAIN Files(body) : FileFinding(v, Files(body)[k])

\* C1: with filtering enabled and mode 'block', inlet raises the block error
\* if and only if a user message or (file scanning being on) a scanned
\* attachment produced a finding, and returns the request when there is no
\* finding at all.
C1_BlockIffFinding ==
  (op = "inlet" /\ valves.enabled /\ valves.mode = "block") =>
    /\ (res.exc = "Exception") <=> HasFinding(valves, arg)
    /\ (~HasFinding(valves, arg)) => IsOk(res)

\* C2: the output of _redact_text holds no match of any active detector that
\* matched the input text.
C2_RedactNoLeak ==
  (op = "_redact_text" /\ IsOk(res)) =>
    LET active == _get_active_patterns(valves).val
    IN \A k \in 1..Len(active) :
         Search(active[k].regex.ast, arg) => ~Search(active[k].regex.ast, res.val)

\* The attachment of a request that a reference to it names: resolvable,
\* within the size limit, of a kind that is scanned.
Scannable(v, f) ==
  /\ isdict(f)
  /\ get(f, "type", "") \in {"file", ""}
  /\ get(f, "id", "") \in DOMAIN Uploads
  /\ Uploads[f.id].fault = ""
  /\ Uploads[f.id].size <= v.max_file_size_mb * 1024 * 1024

Nameless(f) == isdict(f) /\ "name" \notin DOMAIN f

\* Every flagged attachment is gone from the file list and from the
\* metadata's file list of the request inlet returned.
FlaggedFilesAbsent ==
  \A k \in DOMAIN Files(arg) :
    FileFinding(valves, arg.files[k]) =>
      /\ arg.files[k] \notin Range(res.body.files)
      /\ ("metadata" \in DOMAIN arg /\ "files" \in DOMAIN arg.metadata) =>
           arg.files[k] \notin Range(res.body.metadata.files)

RedactReturned ==
  op = "inlet" /\ valves.enabled /\ valves.mode = "redact" /\ IsOk(res)

\* C3 (as amended): in redact mode, when inlet returns, every attachment
\* whose extracted text produced a finding is absent from body['files'] and
\* from body['metadata']['files']; a reference with an id and no 'name' key
\* is never flagged (its default name 'unknown' has no extension, so nothing
\* is extracted from it) and is never removed.
C3_FlaggedFilesStripped ==
  RedactReturned =>
    /\ FlaggedFilesAbsent
    /\ \A k \in DOMAIN Files(arg) :
         Nameless(arg.files[k]) =>
           /\ ~FileFinding(valves, arg.files[k])
           /\ arg.files[k] \in Range(res.body.files)

\* C3 (witness): inlet returned in redact mode having removed a flagged
\* attachment from both lists while a nameless reference to a file with
\* sensitive text was in the request.
C3_Witness ==
  /\ RedactReturned
  /\ \E k \in DOMAIN Files(arg) : FileFinding(valves, arg.files[k])
  /\ \E k \in DOMAIN Files(arg) : Nameless(arg.files[k]) /\ Scannable(valves, arg.files[k])
  /\ "metadata" \in DOMAIN arg /\ "files" \in DOMAIN arg.metadata
  /\ Len(res.body.files) < Len(arg.files)
  /\ Len(res.body.metadata.files) < Len(arg.metadata.files)

\* C3 (as stated): the flagged attachments are absent, and a scanned
\* reference that has an id but no 'name' key, its file holding sensitive
\* text, is flagged under the default name 'unknown'.
C3_NamelessFlaggedAsUnknown ==
  RedactReturned =>
    /\ FlaggedFilesAbsent
    /\ valves.scan_file_uploads =>
         \A k \in DOMAIN Files(arg) :
           LET f == arg.files[k]
           IN (Nameless(f) /\ Scannable(valves, f) /\
               IsOk(_scan_text(valves, Uploads[f.id].text)) /\
               Len(_scan_text(valves, Uploads[f.id].text).val) > 0) =>
                \E n \in DOMAIN res.file_detections :
                  res.file_detections[n][1] = <<"u", "n", "k", "n", "o", "w", "n">>

\* Custom-pattern settings that are not a JSON object of name -> pattern.
InvalidCustomPatterns == {CustomMalformed, CustomArray, CustomNumberValue, CustomBadRegex}

IgnoringCustomPatterns(v) == [v EXCEPT !.custom_patterns = CustomEmpty]

\* C4: whatever the invalid custom_patterns setting, inlet and outlet end as
\* they do with the invalid entries ignored: no error caused by the
\* configuration, and the built-in detectors' findings on message text and
\* file text.
C4_InvalidCustomNeverFatal ==
  (op \in {"inlet", "outlet"} /\ valves.custom_patterns \in InvalidCustomPatterns) =>
    LET v == IgnoringCustomPatterns(valves)
    IN /\ res.exc \notin {"JSONDecodeError", "TypeError", "re.error"}
       /\ (op = "outlet") => res = outlet(v, arg)
       /\ (op = "inlet") =>
            LET scan == IF v.enabled THEN InletScan(v, arg) ELSE Raise("")
            IN \E names \in NoticeOrders(v, scan) : res = inlet(v, arg, scan, names)

Supported(file_name) ==
  _get_file_extension(file_name) \in extractors \cup text_extensions

\* What became of a reference that was never opened by a decoder or a read.
NeverOpened ==
  {"not_dict", "other_type", "no_id", "not_found", "too_large", "not_opened", "error"}

\* C5: an attachment contributes a file detection only if its reference is
\* a mapping of kind 'file' or of no kind, with a non-empty id that resolves
\* to a path, a size of at most max_file_size_mb * 1024 * 1024 bytes and a
\* supported extension; an oversized file, or one with an unsupported or no
\* extension, is never decoded or scanned and yields no finding.
C5_FileGating ==
  (op = "inlet" /\ res.scanned) =>
    /\ Len(res.fates) = IF valves.scan_file_uploads THEN Len(Files(arg)) ELSE 0
    /\ Len(res.file_detections) =
         Cardinality({k \in DOMAIN res.fates : res.fates[k] = "flagged"})
    /\ \A k \in DOMAIN res.fates :
         LET f == arg.files[k]
             id == get(f, "id", "")
             name == get(f, "name", <<"u", "n", "k", "n", "o", "w", "n">>)
             max_bytes == valves.max_file_size_mb * 1024 * 1024
         IN /\ (res.fates[k] = "flagged") =>
                 /\ isdict(f)
                 /\ get(f, "type", "") \in {"file", ""}
                 /\ id # ""
                 /\ id \in DOMAIN Uploads
                 /\ Uploads[id].size <= max_bytes
                 /\ Supported(name)
            /\ ((id \in DOMAIN Uploads /\ Uploads[id].size > max_bytes) \/ ~Supported(name)) =>
                 /\ res.fates[k] \in NeverOpened
                 /\ (res.fates[k] = "error") => Uploads[id].fault = "getsize"

\* C5 (witness): one request in which an oversized file and a file with an
\* unsupported extension, both with sensitive text, were skipped, and a
\* file of exactly the limit was scanned and flagged.
C5_Witness ==
  /\ op = "inlet" /\ res.scanned
  /\ \E i, j, k \in DOMAIN res.fates :
       /\ res.fates[i] = "too_large" /\ Uploads[arg.files[i].id].text = Uploads.up_ssn.text
       /\ res.fates[j] = "not_opened" /\ Uploads[arg.files[j].id].text = Uploads.up_ssn.text
       /\ res.fates[k] = "flagged"
       /\ Uploads[arg.files[k].id].size = valves.max_file_size_mb * 1024 * 1024

\* A reference whose resolving, sizing, extracting or scanning raises.
FileError(v, f) ==
  /\ isdict(f)
  /\ get(f, "type", "") \in {"file", ""}
  /\ get(f, "id", "") # ""
  /\ ~IsOk(ScanOneFile(v, f.id, get(f, "name", <<"u", "n", "k", "n", "o", "w", "n">>)))

FileScanning == op = "inlet" /\ valves.enabled /\ valves.scan_file_uploads

\* C6: an error raised on one attachment never aborts inlet and contributes
\* no finding; every other attachment ends as it does on its own, the
\* message-text findings are kept, and the outcome is decided on all of them.
C6_FileErrorIsolated ==
  (FileScanning /\ \E k \in DOMAIN Files(arg) : FileError(valves, arg.files[k])) =>
    LET md == ScanMessages(valves, Sanitize(arg.messages), 1, <<>>)
        good == {k \in DOMAIN arg.files :
                   ~FileError(valves, arg.files[k]) /\
                   ScanFileRef(valves, arg.files[k]).fate = "flagged"}
    IN IsOk(md) =>
         /\ res.scanned
         /\ res.exc \notin {"OSError", "TypeError", "re.error"}
         /\ res.message_detections = md.val
         /\ \A k \in DOMAIN arg.files :
              IF FileError(valves, arg.files[k]) THEN res.fates[k] = "error"
              ELSE res.fates[k] = ScanFileRef(valves, arg.files[k]).fate
         /\ Len(res.file_detections) = Cardinality(good)
         /\ (md.val = <<>> /\ good = {}) => IsOk(res)
         /\ (valves.mode = "block" /\ (md.val # <<>> \/ good # {})) =>
              /\ res.exc = "Exception"
              /\ res.error.text_types = Descriptions(md.val)
              /\ {res.error.file_lines[n][1] : n \in DOMAIN res.error.file_lines} =
                   {arg.files[k].name : k \in good}

\* C6 (witness): a request blocked on its message text and on a file that
\* comes after two files whose scan raised.
C6_Witness ==
  /\ FileScanning
  /\ res.scanned /\ res.exc = "Exception"
  /\ Len(res.message_detections) > 0
  /\ \E i, j, k \in DOMAIN res.fates :
       /\ i < j /\ j < k
       /\ FileError(valves, arg.files[i]) /\ FileError(valves, arg.files[j])
       /\ res.fates[k] = "flagged"

\* inlet returned with no finding at all.
Passed ==
  /\ op = "inlet" /\ IsOk(res) /\ res.scanned
  /\ res.message_detections = <<>> /\ res.file_detections = <<>>

\* The text a blank text becomes; any other text stays.
Normalized(text) == IF IsBlank(text) THEN EmptyContentText ELSE text

\* The item is the one of the input, its text normalized if it is a text item.
ItemNormalized(out, in) ==
  IF in.type = "text"
  THEN /\ DOMAIN out = DOMAIN in \cup {"text"}
       /\ out.type = "text"
       /\ out.text = Normalized(get(in, "text", <<>>))
  ELSE out = in

\* The message is the one of the input, its text content normalized.
MessageNormalized(out, in) ==
  /\ out.role = in.role
  /\ out.content.kind = in.content.kind
  /\ IF in.content.kind = "str" THEN out.content.text = Normalized(in.content.text)
     ELSE /\ Len(out.content.items) = Len(in.content.items)
          /\ \A n \in DOMAIN in.content.items :
               ItemNormalized(out.content.items[n], in.content.items[n])

\* Everything but the messages is as in the input, and there are as many
\* messages.
FrameKept ==
  /\ DOMAIN res.body = DOMAIN arg
  /\ \A key \in DOMAIN arg \ {"messages"} : res.body[key] = arg[key]
  /\ Len(res.body.messages) = Len(arg.messages)

\* C7 (as amended): when inlet, filtering enabled, returns with no finding,
\* the returned request equals the input except that empty or
\* whitespace-only text content of every message, whatever its role, has
\* been replaced by the placeholder sentence; the file list and the
\* metadata are unchanged.
C7_PassNormalizesEveryRole ==
  Passed =>
    /\ FrameKept
    /\ \A k \in DOMAIN arg.messages :
         MessageNormalized(res.body.messages[k], arg.messages[k])

\* C7 (witness): inlet passed a request in which a system message and an
\* assistant message were blank, with a file list and metadata.
C7_Witness ==
  /\ Passed
  /\ \E k \in DOMAIN arg.messages :
       /\ arg.messages[k].role = "system"
       /\ arg.messages[k].content = Str(<<>>)
       /\ res.body.messages[k].content = Str(EmptyContentText)
  /\ \E k \in DOMAIN arg.messages :
       arg.messages[k].role = "assistant" /\ res.body.messages[k] # arg.messages[k]
  /\ \E k \in DOMAIN arg.messages :
       arg.messages[k].role = "user" /\ res.body.messages[k] # arg.messages[k]
  /\ "files" \in DOMAIN arg /\ "metadata" \in DOMAIN arg

\* C7 (as stated): when inlet returns with no finding, only the blank text
\* content of user messages has been replaced; the messages of other roles,
\* the file list and the metadata are unchanged.
C7_PassNormalizesUserOnly ==
  Passed =>
    /\ FrameKept
    /\ \A k \in DOMAIN arg.messages :
         IF arg.messages[k].role = "user"
         THEN MessageNormalized(res.body.messages[k], arg.messages[k])
         ELSE res.body.messages[k] = arg.messages[k]

\* The custom entries of a configuration, in insertion order.
CustomEntries(v) ==
  LET custom == json_loads(v.custom_patterns)
  IN IF IsOk(custom) /\ custom.val.type = "dict" THEN custom.val.items ELSE <<>>

\* C8: _get_active_patterns returns a function of the current configuration:
\* the built-in detectors whose toggle is true, as defined and in registry
\* order, then one severity-'high' detector 'custom_<name>' per custom entry
\* in insertion order.
C8_ActivePatternsOfConfig ==
  (op = "_get_active_patterns") =>
    LET builtins == SelectSeq(patterns, LAMBDA p : getattr(valves, p.valve, TRUE))
        entries == CustomEntries(valves)
    IN /\ IsOk(res)
       /\ Len(res.val) = Len(builtins) + Len(entries)
       /\ SubSeq(res.val, 1, Len(builtins)) = builtins
       /\ \A k \in DOMAIN entries :
            LET p == res.val[Len(builtins) + k]
            IN /\ p.name = <<"c", "u", "s", "t", "o", "m", "_">> \o entries[k][1]
               /\ p.regex = entries[k][2]
               /\ p.severity = "high"

\* What outlet makes of one message: an assistant's string content with a
\* finding is redacted, anything else is left.
OutletMessage(v, m) ==
  IF v.enabled /\ m.role = "assistant" /\ m.content.kind = "str" /\
     Len(_scan_text(v, m.content.text).val) > 0
  THEN [m EXCEPT !.content.text = _redact_text(v, m.content.text).val]
  ELSE m

\* C9: outlet never raises, whatever the mode: it returns the body, where
\* the content of an assistant message is replaced by its redacted form
\* exactly when it is a string with a finding, any other message unchanged.
C9_OutletNeverRejects ==
  (op = "outlet") =>
    /\ IsOk(res)
    /\ DOMAIN res.body = DOMAIN arg
    /\ res.body.messages =
         [k \in DOMAIN arg.messages |-> OutletMessage(valves, arg.messages[k])]

\* C10: _scan_text on empty text and on None returns no findings and
\* raises nothing, whatever the active detectors.
C10_ScanEmptyOrNone ==
  (op = "_scan_text" /\ (arg = <<>> \/ arg = None)) =>
    (IsOk(res) /\ res.val = <<>>)


\* The attachments of the request that are gone from the file list inlet
\* left, and their names.
Removed == {f \in Range(Files(arg)) : f \notin Range(Files(res.body))}

RemovedNames == {f.name : f \in Removed}

\* The messages inlet added at the end of the message list.
Appended == SubSeq(res.body.messages, Len(arg.messages) + 1, Len(res.body.messages))

\* The text of the notice that lists the names in the given order.
NoticeText(names) ==
  <<"[", "D", "L", "P", " ", "N", "o", "t", "i", "c", "e", "]", " ", "T", "h", "e", " ", "f", "o", "l", "l", "o", "w", "i", "n", "g", " ", "f", "i", "l", "e", "s", " ", "w", "e", "r", "e", " ", "r", "e", "m", "o", "v", "e", "d", " ", "b", "e", "c", "a", "u", "s", "e", " ", "t", "h", "e", "y", " ", "c", "o", "n", "t", "a", "i", "n", " ", "s", "e", "n", "s", "i", "t", "i", "v", "e", " ", "d", "a", "t", "a", ":", " ">>
    \o Join(<<",", " ">>, names) \o <<".", " ", "T", "h", "e", " ", "A", "I", " ", "w", "i", "l", "l", " ", "n", "o", "t", " ", "s", "e", "e", " ", "t", "h", "e", "s", "e", " ", "f", "i", "l", "e", "s", ".">>

\* C11: in redact mode inlet appends exactly one system-role notice to the
\* message list if and only if at least one attachment was removed from the
\* file list, the names listed in the notice are exactly the names of the
\* removed attachments, and nothing is appended when no file was removed,
\* nor when inlet raises.
C11_NoticeIffRemoved ==
  (op = "inlet" /\ valves.mode = "redact") =>
    /\ Len(res.body.messages) \in {Len(arg.messages), Len(arg.messages) + 1}
    /\ IsOk(res) =>
         /\ (Appended # <<>>) <=> (Removed # {})
         /\ (Appended # <<>>) =>
              /\ Appended[1].role = "system"
              /\ Appended[1].content.kind = "str"
              /\ \E names \in Orderings(RemovedNames) :
                   Appended[1].content.text = NoticeText(names)
    /\ ~IsOk(res) => Appended = <<>>

\* C11 (witness): inlet returned in redact mode having removed two
\* attachments of different names and appended the notice that lists both.
C11_Witness ==
  /\ RedactReturned
  /\ Cardinality(RemovedNames) = 2
  /\ Len(Appended) = 1
  /\ Appended[1].role = "system"

\* The active detectors that match somewhere in the text, in their order.
Matching(v, text) ==
  SelectSeq(_get_active_patterns(v).val, LAMBDA p : Search(p.regex.ast, text))

\* The findings are one per active detector that matches the text, in the
\* order of the active detectors, and no detector is named twice.
OneFindingPerMatchingDetector ==
  /\ IsOk(res)
  /\ Len(res.val) = Len(Matching(valves, arg))
  /\ \A k \in DOMAIN res.val :
       LET p == Matching(valves, arg)[k]
       IN res.val[k] = <<p.name, p.description, p.severity>>
  /\ \A i, j \in DOMAIN res.val : res.val[i][1] = res.val[j][1] => i = j

\* C12: for every text _scan_text returns at most one finding per active
\* detector however often it matches, a finding for a detector exactly when
\* it matches somewhere in the text, the findings in active-detector order
\* (built-ins in registry order, then custom), and it leaves the
\* configuration as it was.
C12_ScanFindsEachMatchingDetectorOnce ==
  /\ []((op = "_scan_text" /\ arg # None) => OneFindingPerMatchingDetector)
  /\ [][op' = "_scan_text" => valves' = valves]_vars

\* The detectors that fire on the text of a message, scanned as inlet scans it.
Fired(v, message) ==
  LET detections == _scan_text(v, TextToScan(message))
  IN IF IsOk(detections) THEN {detections.val[n][1] : n \in DOMAIN detections.val} ELSE {}

\* C13: in redact mode, when inlet returns, scanning each user message
\* again as inlet scanned it (the text segments of a list joined by one
\* space) yields no finding of a detector that fired on that message in the
\* input, also when the match spanned two adjacent text segments.
C13_RedactedMessagesRescanClean ==
  RedactReturned =>
    \A k \in DOMAIN arg.messages :
      (arg.messages[k].role = "user") =>
        Fired(valves, SanitizeMessage(arg.messages[k])) \cap
          Fired(valves, res.body.messages[k]) = {}

\* C14: with filtering enabled and at least one finding, under a mode that
\* is neither 'block' nor 'redact' inlet neither rejects nor redacts: it
\* returns the request with the flagged text and the flagged files as they
\* were and no notice appended, changed only by the normalization of empty
\* content.
C14_UnknownModeFailsOpen ==
  (op = "inlet" /\ valves.enabled /\ valves.mode \notin {"block", "redact"} /\
   HasFinding(valves, arg)) =>
    /\ IsOk(res)
    /\ FrameKept
    /\ \A k \in DOMAIN arg.messages :
         MessageNormalized(res.body.messages[k], arg.messages[k])

\* C14 (witness): under mode 'Block' inlet returned a request with a
\* finding in a user message and a flagged file.
C14_Witness ==
  /\ op = "inlet" /\ valves.enabled /\ valves.mode = "Block"
  /\ IsOk(res) /\ res.scanned
  /\ Len(res.message_detections) > 0
  /\ Len(res.file_detections) > 0
  /\ \E k \in DOMAIN arg.messages : MessageFinding(valves, arg.messages[k])
  /\ \E k \in DOMAIN Files(arg) : FileFinding(valves, arg.files[k])
====
